---- MODULE Spec2Model ----
(***************************************************************************)
(* A model of styxsingularity (src/src/styxsingularity/__init__.py): the   *)
(* mount formatter _singularity_mount, the execution context               *)
(* _SingularityExecution (input_file, output_file, run), the process       *)
(* supervision inside run (child process, two pipes, two stream workers),  *)
(* and the runner SingularityRunner (start_execution).                      *)
(*                                                                         *)
(* Text is modelled as a sequence of one-character strings, so that the    *)
(* character tests and the slicing of the code are computed, not assumed.  *)
(***************************************************************************)
EXTENDS Integers, Sequences, FiniteSets, TLC

(***************************************************************************)
(* Bounds of the model.                                                    *)
(***************************************************************************)
\* input_file calls that succeed on one context
MaxInputs == 2
\* start_execution calls that succeed on one runner
MaxExec == 3
\* characters an OS pipe holds before a write blocks
PipeCap == 2
\* threads calling start_execution concurrently
NumThreads == 2
\* characters of a path handed to _singularity_mount on its own
MaxPathLen == 2

(***************************************************************************)
(* Text helpers.                                                           *)
(***************************************************************************)
NL == "\n"

Digit(d) ==
    CASE d = 0 -> "0" [] d = 1 -> "1" [] d = 2 -> "2" [] d = 3 -> "3"
      [] d = 4 -> "4" [] d = 5 -> "5" [] d = 6 -> "6" [] d = 7 -> "7"
      [] d = 8 -> "8" [] d = 9 -> "9"

\* str(n) of a non-negative int, as the f-strings render it
RECURSIVE Str(_)
Str(n) == IF n < 10 THEN <<Digit(n)>> ELSE Str(n \div 10) \o <<Digit(n % 10)>>

\* sep.join(parts)
RECURSIVE Join(_, _)
Join(parts, sep) ==
    IF parts = <<>> THEN <<>>
    ELSE IF Len(parts) = 1 THEN parts[1]
    ELSE parts[1] \o sep \o Join(Tail(parts), sep)

\* s.startswith(prefix)
StartsWith(s, prefix) ==
    /\ Len(s) >= Len(prefix)
    /\ SubSeq(s, 1, Len(prefix)) = prefix

\* the components of s between "/" separators, in order, empty ones included
RECURSIVE SplitSlash(_, _, _)
SplitSlash(s, i, cur) ==
    IF i > Len(s) THEN <<cur>>
    ELSE IF s[i] = "/" THEN <<cur>> \o SplitSlash(s, i + 1, <<>>)
    ELSE SplitSlash(s, i + 1, Append(cur, s[i]))

RECURSIVE DropEmpty(_)
DropEmpty(parts) ==
    IF parts = <<>> THEN <<>>
    ELSE IF parts[1] = <<>> \/ parts[1] = <<".">> THEN DropEmpty(Tail(parts))
    ELSE <<parts[1]>> \o DropEmpty(Tail(parts))

(***************************************************************************)
(* pathlib.PurePosixPath, on the posix text of a path.                     *)
(***************************************************************************)
IsAbs(s) == Len(s) > 0 /\ s[1] = "/"

PathParts(s) == DropEmpty(SplitSlash(s, 1, <<>>))

PathStr(abs, parts) ==
    IF parts = <<>> THEN (IF abs THEN <<"/">> ELSE <<".">>)
    ELSE (IF abs THEN <<"/">> ELSE <<>>) \o Join(parts, <<"/">>)

\* pl.Path(s): the normalised text
Path(s) == PathStr(IsAbs(s), PathParts(s))

\* Path.name
PathName(p) ==
    LET parts == PathParts(p)
    IN  IF parts = <<>> THEN <<>> ELSE parts[Len(parts)]

\* Path.parent
PathParent(p) ==
    LET parts == PathParts(p)
    IN  IF parts = <<>> THEN Path(p)
        ELSE PathStr(IsAbs(p), SubSeq(parts, 1, Len(parts) - 1))

\* p / q
PathJoin(p, q) == IF IsAbs(q) THEN Path(q) ELSE Path(p \o <<"/">> \o q)

(***************************************************************************)
(* The host file system the program runs on.                               *)
(***************************************************************************)
Cwd == <<"/", "w">>

HostDirs == { <<"/">>, <<"/", "w">>, <<"/", "d">>, <<"/", "e">> }

HostFiles ==
    { <<"/", "d", "/", "a">>,
      <<"/", "e", "/", "a">>,
      <<"/", "d", "/", "c", ":">> }

\* the host paths a caller hands to input_file: two files of the same name,
\* a file that is missing from a directory that exists, and a file whose
\* directory is missing
HostPaths ==
    { <<"/", "d", "/", "a">>, <<"/", "e", "/", "a">>,
      <<"/", "d", "/", "n">>, <<"/", "x", "/", "a">> }

\* Path.absolute().as_posix()
Absolute(p) == IF IsAbs(p) THEN Path(p) ELSE PathJoin(Cwd, p)

(***************************************************************************)
(* _singularity_mount                                                      *)
(***************************************************************************)
\* the characters of r",\\:" (a raw string: comma, backslash, backslash, colon)
IllegalChars == { ",", "\\", ":" }

\* set(host_path + container_path)
Charset(host_path, container_path) ==
    { (host_path \o container_path)[i] :
        i \in 1..Len(host_path \o container_path) }

\* variant: only the host path is tested
HasIllegalBuggy(host_path, container_path) ==
    \E c \in IllegalChars : c \in Charset(host_path, <<>>)

\* variant: only the comma is looked for
HasIllegalCommaOnly(host_path, container_path) ==
    "," \in Charset(host_path, container_path)

\* any(c in charset for c in r",\\:")
HasIllegal(host_path, container_path) ==
    \E c \in IllegalChars : c \in Charset(host_path, container_path)

\* variant: ":ro" whatever readonly is
MountTextBuggy(host_path, container_path, readonly) ==
    host_path \o <<":">> \o container_path \o <<":", "r", "o">>

MountText(host_path, container_path, readonly) ==
    host_path \o <<":">> \o container_path
        \o (IF readonly THEN <<":", "r", "o">> ELSE <<>>)

\* the value returned, or the ValueError raised
singularity_mount(host_path, container_path, readonly) ==
    IF HasIllegal(host_path, container_path)
    THEN [ok |-> FALSE, err |-> "ValueError", val |-> <<>>]
    ELSE [ok |-> TRUE, err |-> "",
          val |-> MountText(host_path, container_path, readonly)]

(***************************************************************************)
(* The state.                                                              *)
(***************************************************************************)
VARIABLES
    \* SingularityRunner
    uid,                  \* self.uid, drawn once at construction
    execution_counter,    \* self.execution_counter
    contexts,             \* history: the contexts start_execution returned
    \* _SingularityExecution (the context the caller is working with)
    output_dir,           \* self.output_dir
    container_tag,        \* self.container_tag
    environ,              \* self.environ, a list of <<key, value>>
    input_mounts,         \* self.input_mounts
    input_file_next_id,   \* self.input_file_next_id
    returned,             \* history: what the successful input_file calls returned
    \* the host file system as run() changes it
    fs_dirs,              \* directories created by mkdir
    scripts,              \* file content by path, for the files run() wrote
    \* one execution of run()
    runpc,                \* "idle", "spawned" (inside the with blocks), "joined"
    cargs,                \* the argument of run()
    mounts,               \* the local list mounts
    singularity_command,  \* the local list singularity_command
    childProg,            \* the child: the writes it makes, in order
    childPos,             \* the next write of the child
    childState,           \* "none", "running", "exited"
    childExit,            \* the exit status of the child once exited
    pipe,                 \* per stream, the text in the OS pipe
    readOpen,             \* per stream, whether the parent's end is open
    wbuf,                 \* per stream worker, the text of the line being read
    wstate,               \* per stream worker: "idle", "reading", "done", "raised"
    delivered,            \* per stream, the arguments the handler returned from
    hraise,               \* per stream, the call at which the handler raises (0: never)
    \* the last call of the caller and how it ended
    lastCall,
    \* threads calling start_execution concurrently
    tpc, tmd, tload, tret,
    \* one application of _singularity_mount
    mnt

runnerVars == <<uid, execution_counter, contexts>>
ctxVars == <<output_dir, container_tag, environ, input_mounts,
             input_file_next_id, returned>>
fsVars == <<fs_dirs, scripts>>
procVars == <<childProg, childPos, childState, childExit, pipe, readOpen,
              wbuf, wstate, delivered, hraise>>
runVars == <<runpc, cargs, mounts, singularity_command>>
threadVars == <<tpc, tmd, tload, tret>>
vars == <<runnerVars, ctxVars, fsVars, procVars, runVars, lastCall,
          threadVars, mnt>>

(***************************************************************************)
(* SingularityRunner                                                       *)
(***************************************************************************)
\* data_dir or "styx_tmp", with the default
data_dir == Path(<<"s", "t", "y", "x", "_", "t", "m", "p">>)

singularity_executable == <<"s", "i", "n", "g", "u", "l", "a", "r", "i", "t", "y">>

\* singularity_extra_args or ["--no-mount", "hostfs"], with the default
singularity_extra_args == << <<"-", "-", "n", "o", "-", "m", "o", "u", "n", "t">>, <<"h", "o", "s", "t", "f", "s">> >>

\* os.urandom(8).hex(), shortened to two hex digits
Uids == { <<"a", "7">>, <<"0", "f">> }

\* image_overrides, a dict from tag to tag
image_overrides ==
    (<<"b">> :> <<"a">>) @@ (<<"a">> :> <<"c">>) @@ (<<"f">> :> <<"d", "o", "c", "k", "e", "r", ":", "/", "/", "e">>)

DockerPrefix == <<"d", "o", "c", "k", "e", "r", ":", "/", "/">>

NoneTag == [some |-> FALSE, val |-> <<>>]
SomeTag(t) == [some |-> TRUE, val |-> t]

\* the container image tags a Metadata may carry
Tags ==
    { NoneTag, SomeTag(<<"a">>), SomeTag(<<"b">>), SomeTag(<<"d">>),
      SomeTag(<<"f">>), SomeTag(<<"d", "o", "c", "k", "e", "r", ":", "/", "/", "a">>) }

Names == { <<"n">>, <<"1", "_", "n">> }

Metadatas ==
    { [name |-> n, package |-> <<"p">>, container_image_tag |-> t] :
        n \in Names, t \in Tags }

\* dict.get(key, default)
DictGet(d, key, default) == IF key \in DOMAIN d THEN d[key] ELSE default

\* variant: the override's result is looked up again
ResolveTagTwice(tag) ==
    LET t1 == DictGet(image_overrides, tag, tag)
        t == DictGet(image_overrides, t1, t1)
    IN  IF ~StartsWith(t, DockerPrefix) THEN DockerPrefix \o t ELSE t

\* the container_tag of the new context
ResolveTag(tag) ==
    LET t == DictGet(image_overrides, tag, tag)
    IN  IF ~StartsWith(t, DockerPrefix) THEN DockerPrefix \o t ELSE t

\* variant: the directory name without the counter
OutputDirNoCounter(u, counter, name) ==
    PathJoin(data_dir, u \o <<"_">> \o name)

\* self.data_dir / f"{self.uid}_{self.execution_counter - 1}_{metadata.name}",
\* with counter the value of self.execution_counter read there
OutputDir(u, counter, name) ==
    PathJoin(data_dir, u \o <<"_">> \o Str(counter - 1) \o <<"_">> \o name)

(***************************************************************************)
(* The child process and its two output streams.                           *)
(***************************************************************************)
Streams == { "stdout", "stderr" }

Write(s, c) == [s |-> s, c |-> c]

\* the child writes text to stream s, one character at a time
Out(s, text) == [i \in 1..Len(text) |-> Write(s, text[i])]

\* children that write little
BasicPrograms ==
    { <<>>, Out("stdout", <<"a", NL>>) \o Out("stderr", <<"e">>) }

\* children that write lines with and without a final newline, empty lines,
\* and more than a pipe holds to one stream before they touch the other.
\* None writes a carriage return, which text=True would turn into a newline.
ChildPrograms ==
    { Out("stdout", <<"a", NL>>) \o Out("stderr", <<"e", NL>>),
      Out("stdout", <<"a", "b">>),
      Out("stdout", <<NL, "a", NL, NL>>),
      Out("stdout", <<"a", NL, "b", NL, "c", NL>>) \o Out("stderr", <<"e", NL>>),
      Out("stderr", <<"e", NL, "f", NL, "g", NL>>) \o Out("stdout", <<"a", NL>>),
      Out("stderr", <<"e">>) \o Out("stdout", <<"a", NL>>)
          \o Out("stderr", <<NL, "f">>) }

\* the exit statuses of a child: success, failure, killed by SIGKILL
ExitCodes == { 0, 17, -9 }

\* Popen.returncode of a child killed by SIGPIPE
SigPipe == -13

NeverRaise == [s \in Streams |-> 0]

\* handlers that return from every call (the default handlers log the line)
TotalHandlers == { NeverRaise }

\* handlers, some raising at their first or second call
Handlers ==
    { NeverRaise,
      [NeverRaise EXCEPT !["stdout"] = 1],
      [NeverRaise EXCEPT !["stdout"] = 2],
      [NeverRaise EXCEPT !["stderr"] = 1],
      [s \in Streams |-> 1] }

\* the text the child has written to stream s so far
RECURSIVE WrittenUpTo(_, _, _)
WrittenUpTo(prog, n, s) ==
    IF n = 0 THEN <<>>
    ELSE WrittenUpTo(prog, n - 1, s)
         \o (IF prog[n].s = s THEN <<prog[n].c>> ELSE <<>>)

Written(s) == WrittenUpTo(childProg, childPos - 1, s)

NoProc ==
    /\ childProg = <<>>
    /\ childPos = 1
    /\ childState = "none"
    /\ childExit = 0
    /\ pipe = [s \in Streams |-> <<>>]
    /\ readOpen = [s \in Streams |-> FALSE]
    /\ wbuf = [s \in Streams |-> <<>>]
    /\ wstate = [s \in Streams |-> "idle"]
    /\ delivered = [s \in Streams |-> <<>>]
    /\ hraise = NeverRaise

\* no child: the process variables as they are before any Popen
ResetProc ==
    /\ childProg' = <<>>
    /\ childPos' = 1
    /\ childState' = "none"
    /\ childExit' = 0
    /\ pipe' = [s \in Streams |-> <<>>]
    /\ readOpen' = [s \in Streams |-> FALSE]
    /\ wbuf' = [s \in Streams |-> <<>>]
    /\ wstate' = [s \in Streams |-> "idle"]
    /\ delivered' = [s \in Streams |-> <<>>]
    /\ hraise' = NeverRaise

\* the locals of a run() that has returned or raised are gone when the
\* caller makes its next call
ForgetRun ==
    /\ ResetProc
    /\ runpc' = "idle"
    /\ cargs' = <<>>
    /\ mounts' = <<>>
    /\ singularity_command' = <<>>

NoRun ==
    /\ runpc = "idle"
    /\ cargs = <<>>
    /\ mounts = <<>>
    /\ singularity_command = <<>>

(***************************************************************************)
(* What the caller observes of a call: how it ended and what it returned.  *)
(***************************************************************************)
NoMetadata == [name |-> <<>>, package |-> <<>>, container_image_tag |-> NoneTag]
NoError == [return_code |-> 0, command_args |-> <<>>, singularity_args |-> <<>>]
NoArgs == [path |-> <<>>, resolve_parent |-> FALSE, mutable |-> FALSE,
           metadata |-> NoMetadata]

Call(op, args, ok, err, ret, error) ==
    [op |-> op, args |-> args, ok |-> ok, err |-> err, ret |-> ret,
     error |-> error]

NoCall == Call("none", NoArgs, TRUE, "", <<>>, NoError)

(***************************************************************************)
(* SingularityRunner.start_execution, called by one thread at a time.      *)
(***************************************************************************)
NoOutputDir == <<>>
HasContext == output_dir # NoOutputDir

start_execution(metadata) ==
    /\ runpc = "idle"
    /\ IF ~metadata.container_image_tag.some
       THEN \* raise ValueError
            /\ lastCall' = Call("start_execution",
                                [NoArgs EXCEPT !.metadata = metadata],
                                FALSE, "ValueError", <<>>, NoError)
            /\ UNCHANGED <<runnerVars, ctxVars>>
       ELSE /\ execution_counter < MaxExec
            /\ execution_counter' = execution_counter + 1
            /\ output_dir' = OutputDir(uid, execution_counter', metadata.name)
            /\ container_tag' = ResolveTag(metadata.container_image_tag.val)
            /\ input_mounts' = <<>>
            /\ input_file_next_id' = 0
            /\ returned' = <<>>
            /\ contexts' = Append(contexts,
                                  [output_dir |-> output_dir',
                                   container_tag |-> container_tag',
                                   metadata |-> metadata])
            /\ lastCall' = Call("start_execution",
                                [NoArgs EXCEPT !.metadata = metadata],
                                TRUE, "", output_dir', NoError)
            /\ UNCHANGED <<uid, environ>>
    /\ ForgetRun
    /\ UNCHANGED <<fsVars, threadVars, mnt>>

(***************************************************************************)
(* _SingularityExecution.input_file and output_file                        *)
(***************************************************************************)
\* Path.is_dir() and Path.exists() on the host
IsDir(p) == Absolute(p) \in HostDirs \cup fs_dirs
Exists(p) == Absolute(p) \in HostDirs \cup HostFiles \cup fs_dirs \cup DOMAIN scripts

StyxInput == <<"/", "s", "t", "y", "x", "_", "i", "n", "p", "u", "t", "/">>

\* variant: the in-container path without the id
LocalFileNoId(id, name) == StyxInput \o name

\* f"/styx_input/{self.input_file_next_id}/{name}"
LocalFile(id, name) == StyxInput \o Str(id) \o <<"/">> \o name

Mount(host, local, mutable) ==
    [host_file |-> host, local_file |-> local, mutable |-> mutable]

NoMount == Mount(<<>>, <<>>, FALSE)

InputFileFailure == [ok |-> FALSE, mount |-> NoMount, resolved_file |-> <<>>]

\* variant: no test that the file or its parent exists
InputFileResultUnchecked(host_file, resolve_parent, mutable, id) ==
    LET _host_file == Path(host_file)
        _host_file_parent == PathParent(_host_file)
    IN  IF resolve_parent
        THEN LET local_file == LocalFile(id, PathName(_host_file_parent))
             IN  [ok |-> TRUE,
                  mount |-> Mount(_host_file_parent, local_file, mutable),
                  resolved_file |->
                      local_file \o <<"/">> \o PathName(_host_file)]
        ELSE LET local_file == LocalFile(id, PathName(_host_file))
             IN  [ok |-> TRUE,
                  mount |-> Mount(_host_file, local_file, mutable),
                  resolved_file |-> local_file]

\* the body of input_file up to the increment: the mount it appends and the
\* path it returns, or the FileNotFoundError it raises
InputFileResult(host_file, resolve_parent, mutable, id) ==
    LET _host_file == Path(host_file)
        _host_file_parent == PathParent(_host_file)
    IN  IF resolve_parent
        THEN IF ~IsDir(_host_file_parent) THEN InputFileFailure
             ELSE LET local_file == LocalFile(id, PathName(_host_file_parent))
                  IN  [ok |-> TRUE,
                       mount |-> Mount(_host_file_parent, local_file, mutable),
                       resolved_file |->
                           local_file \o <<"/">> \o PathName(_host_file)]
        ELSE IF ~Exists(_host_file) THEN InputFileFailure
             ELSE LET local_file == LocalFile(id, PathName(_host_file))
                  IN  [ok |-> TRUE,
                       mount |-> Mount(_host_file, local_file, mutable),
                       resolved_file |-> local_file]

\* variant: the id is not incremented
NextIdStuck(id) == id

\* self.input_file_next_id += 1
NextId(id) == id + 1

input_file(host_file, resolve_parent, mutable) ==
    LET r == InputFileResult(host_file, resolve_parent, mutable,
                             input_file_next_id)
        args == [NoArgs EXCEPT !.path = host_file,
                               !.resolve_parent = resolve_parent,
                               !.mutable = mutable]
    IN  /\ runpc = "idle"
        /\ HasContext
        /\ IF ~r.ok
           THEN /\ lastCall' = Call("input_file", args, FALSE,
                                    "FileNotFoundError", <<>>, NoError)
                /\ UNCHANGED ctxVars
           ELSE /\ Len(input_mounts) < MaxInputs
                /\ input_mounts' = Append(input_mounts, r.mount)
                /\ input_file_next_id' = NextId(input_file_next_id)
                /\ returned' = Append(returned, r.resolved_file)
                /\ lastCall' = Call("input_file", args, TRUE, "",
                                    r.resolved_file, NoError)
                /\ UNCHANGED <<output_dir, container_tag, environ>>
        /\ ForgetRun
        /\ UNCHANGED <<runnerVars, fsVars, threadVars, mnt>>

\* the relative paths a caller hands to output_file
LocalFiles == { <<"o">>, <<"s", "/", "o">> }

output_file(local_file, optional) ==
    /\ runpc = "idle"
    /\ HasContext
    /\ lastCall' = Call("output_file", [NoArgs EXCEPT !.path = local_file],
                        TRUE, "", PathJoin(output_dir, local_file), NoError)
    /\ ForgetRun
    /\ UNCHANGED <<runnerVars, ctxVars, fsVars, threadVars, mnt>>

(***************************************************************************)
(* shlex.quote and shlex.join                                              *)
(***************************************************************************)
\* the characters shlex leaves unquoted: [a-zA-Z0-9_@%+=:,./-], here the lower
\* case letters and the digits of them
SafeChars ==
    { "a", "b", "c", "d", "e", "f", "g", "h", "i", "j", "k", "l", "m",
    "n", "o", "p", "q", "r", "s", "t", "u", "v", "w", "x", "y", "z", "0",
    "1", "2", "3", "4", "5", "6", "7", "8", "9", "_", "@", "%", "+", "=",
    ":", ",", ".", "/", "-" }

RECURSIVE ReplaceQuotes(_)
\* s.replace("'", "'\"'\"'")
ReplaceQuotes(s) ==
    IF s = <<>> THEN <<>>
    ELSE (IF s[1] = "'" THEN <<"'", "\"", "'", "\"", "'">> ELSE <<s[1]>>)
         \o ReplaceQuotes(Tail(s))

\* variant: a quote inside the argument is left as it is
ShlexQuoteNoEscape(s) ==
    IF s = <<>> THEN <<"'", "'">>
    ELSE IF \A i \in 1..Len(s) : s[i] \in SafeChars THEN s
    ELSE <<"'">> \o s \o <<"'">>

\* shlex.quote
ShlexQuote(s) ==
    IF s = <<>> THEN <<"'", "'">>
    ELSE IF \A i \in 1..Len(s) : s[i] \in SafeChars THEN s
    ELSE <<"'">> \o ReplaceQuotes(s) \o <<"'">>

ShlexJoin(args) == Join([i \in 1..Len(args) |-> ShlexQuote(args[i])], <<" ">>)

(***************************************************************************)
(* _SingularityExecution.run: what it computes before the child starts.    *)
(***************************************************************************)
Bind == <<"-", "-", "b", "i", "n", "d">>
StyxOutput == <<"/", "s", "t", "y", "x", "_", "o", "u", "t", "p", "u", "t">>
RunSh == <<"r", "u", "n", ".", "s", "h">>

MountFailure == [ok |-> FALSE, val |-> <<>>]

\* variant: mutable is ignored
ReadOnlyAlways(mutable) == TRUE

\* readonly=not mutable
ReadOnly(mutable) == ~mutable

\* variant: the mounts in reverse declaration order
RECURSIVE InputMountArgsReversed(_)
InputMountArgsReversed(ims) ==
    IF ims = <<>> THEN [ok |-> TRUE, val |-> <<>>]
    ELSE LET m == singularity_mount(Absolute(ims[1].host_file),
                                    ims[1].local_file,
                                    ReadOnly(ims[1].mutable))
             rest == InputMountArgsReversed(Tail(ims))
         IN  IF ~m.ok \/ ~rest.ok THEN MountFailure
             ELSE [ok |-> TRUE, val |-> rest.val \o <<Bind, m.val>>]

\* the loop over self.input_mounts: the list mounts after it, or the ValueError
\* of the first mount _singularity_mount refuses
RECURSIVE InputMountArgs(_)
InputMountArgs(ims) ==
    IF ims = <<>> THEN [ok |-> TRUE, val |-> <<>>]
    ELSE LET m == singularity_mount(Absolute(ims[1].host_file),
                                    ims[1].local_file,
                                    ReadOnly(ims[1].mutable))
             rest == InputMountArgs(Tail(ims))
         IN  IF ~m.ok \/ ~rest.ok THEN MountFailure
             ELSE [ok |-> TRUE, val |-> <<Bind, m.val>> \o rest.val]

\* variant: the output directory mounted read-only
OutputMountReadOnly(dir) == singularity_mount(Absolute(dir), StyxOutput, TRUE)

\* _singularity_mount(self.output_dir.absolute().as_posix(), "/styx_output",
\*                    readonly=False)
OutputMount(dir) == singularity_mount(Absolute(dir), StyxOutput, FALSE)

\* the text written to run.sh
RunScript(args) ==
    <<"#", "!", "/", "b", "i", "n", "/", "b", "a", "s", "h", NL,
      "c", "d", " ", "/", "s", "t", "y", "x", "_", "o", "u", "t", "p", "u", "t", NL>>
        \o ShlexJoin(args) \o <<NL>>

\* ",".join([f"{key}={value}" for key, value in self.environ.items()])
EnvironArg(env) ==
    Join([i \in 1..Len(env) |-> env[i][1] \o <<"=">> \o env[i][2]], <<",">>)

\* variant: --env and its argument whatever the environ
SingularityCommandAlwaysEnv(mnts, env, tag) ==
    <<singularity_executable, <<"e", "x", "e", "c">>>>
        \o singularity_extra_args
        \o mnts
        \o <<<<"-", "-", "e", "n", "v">>, EnvironArg(env)>>
        \o <<tag, <<"/", "b", "i", "n", "/", "b", "a", "s", "h">>, <<"/", "s", "t", "y", "x", "_", "o", "u", "t", "p", "u", "t", "/", "r", "u", "n", ".", "s", "h">>>>

\* the list singularity_command
SingularityCommand(mnts, env, tag) ==
    <<singularity_executable, <<"e", "x", "e", "c">>>>
        \o singularity_extra_args
        \o mnts
        \o (IF EnvironArg(env) # <<>> THEN <<<<"-", "-", "e", "n", "v">>, EnvironArg(env)>> ELSE <<>>)
        \o <<tag, <<"/", "b", "i", "n", "/", "b", "a", "s", "h">>, <<"/", "s", "t", "y", "x", "_", "o", "u", "t", "p", "u", "t", "/", "r", "u", "n", ".", "s", "h">>>>

\* variant: nothing is created
WithParentsSkipped(dir) == {}

\* the directories mkdir(parents=True, exist_ok=True) leaves in place
RECURSIVE WithParents(_)
WithParents(dir) ==
    IF PathParts(dir) = <<>> THEN {}
    ELSE {dir} \cup WithParents(PathParent(dir))

\* the commands a caller hands to run()
Cargs == { <<<<"l", "s">>>>, <<<<"e", "c", "h", "o">>, <<"a", " ", "b">>>> }

\* commands with an argument that holds a quote, and one that holds a newline
ProcCargs ==
    Cargs \cup { <<<<"e", "c", "h", "o">>, <<"i", "t", "'", "s">>>>,
                 <<<<"e", "c", "h", "o">>, <<"a", NL, "b">>>> }

\* variant: the output mount is appended to the declared list
InputMountsWithOutput(ims, dir) == Append(ims, Mount(dir, StyxOutput, TRUE))

\* self.input_mounts after run(): the loop only reads it, and the list the
\* output mount is appended to is the local mounts of line 208
InputMountsAfterRun(ims, dir) == ims

(***************************************************************************)
(* _SingularityExecution.run                                               *)
(***************************************************************************)
\* lines 208-267: the mounts, the output directory, the script, the command,
\* Popen, and the two tasks handed to the pool.  It is the calling thread's
\* code up to the point where it waits for the pool.
run_start(args, prog, handlers) ==
    LET im == InputMountArgs(input_mounts)
        om == OutputMount(output_dir)
        dir == Absolute(output_dir)
        run_script == PathJoin(dir, RunSh)
        raised == Call("run", NoArgs, FALSE, "ValueError", <<>>, NoError)
    IN  /\ runpc = "idle"
        /\ HasContext
        /\ cargs' = args
        /\ IF ~im.ok
           THEN \* raised in the loop, before anything is written
                /\ lastCall' = raised
                /\ mounts' = <<>>
                /\ singularity_command' = <<>>
                /\ runpc' = "idle"
                /\ ResetProc
                /\ UNCHANGED fsVars
           ELSE /\ fs_dirs' = fs_dirs \cup (WithParents(dir) \ HostDirs)
                /\ scripts' = (run_script :> RunScript(args)) @@ scripts
                /\ IF ~om.ok
                   THEN /\ lastCall' = raised
                        /\ mounts' = im.val
                        /\ singularity_command' = <<>>
                        /\ runpc' = "idle"
                        /\ ResetProc
                   ELSE /\ mounts' = im.val \o <<Bind, om.val>>
                        /\ singularity_command' =
                               SingularityCommand(mounts', environ, container_tag)
                        /\ runpc' = "spawned"
                        /\ lastCall' = Call("run", NoArgs, TRUE, "running",
                                            <<>>, NoError)
                        /\ childProg' = prog
                        /\ childPos' = 1
                        /\ childState' = "running"
                        /\ childExit' = 0
                        /\ pipe' = [s \in Streams |-> <<>>]
                        /\ readOpen' = [s \in Streams |-> TRUE]
                        /\ wbuf' = [s \in Streams |-> <<>>]
                        /\ wstate' = [s \in Streams |-> "reading"]
                        /\ delivered' = [s \in Streams |-> <<>>]
                        /\ hraise' = handlers
        /\ input_mounts' = InputMountsAfterRun(input_mounts, output_dir)
        /\ UNCHANGED <<runnerVars, output_dir, container_tag, environ,
                       input_file_next_id, returned, threadVars, mnt>>

\* the child makes its next write: it blocks while the pipe is full, and is
\* killed by SIGPIPE, or sees the write fail, once the parent closed its end
child_write ==
    /\ childState = "running"
    /\ childPos <= Len(childProg)
    /\ LET w == childProg[childPos]
       IN  IF readOpen[w.s]
           THEN /\ Len(pipe[w.s]) < PipeCap
                /\ pipe' = [pipe EXCEPT ![w.s] = Append(@, w.c)]
                /\ childPos' = childPos + 1
                /\ UNCHANGED <<childState, childExit>>
           ELSE \/ /\ childState' = "exited"
                   /\ childExit' = SigPipe
                   /\ UNCHANGED <<childPos, pipe>>
                \/ /\ childPos' = childPos + 1
                   /\ UNCHANGED <<childState, childExit, pipe>>
    /\ UNCHANGED <<runnerVars, ctxVars, fsVars, runVars, lastCall, threadVars,
                   mnt, childProg, readOpen, wbuf, wstate, delivered, hraise>>

\* the child has nothing left to write and exits, which closes its ends
child_exit(code) ==
    /\ childState = "running"
    /\ childPos > Len(childProg)
    /\ childState' = "exited"
    /\ childExit' = code
    /\ UNCHANGED <<runnerVars, ctxVars, fsVars, runVars, lastCall, threadVars,
                   mnt, childProg, childPos, pipe, readOpen, wbuf, wstate,
                   delivered, hraise>>

\* variant: ThreadPoolExecutor(1), the stderr task waits for the stdout task
PoolOfOne(s) == s = "stdout" \/ wstate["stdout"] \in {"done", "raised"}

\* ThreadPoolExecutor(2) with two tasks: each task has a thread of its own,
\* so a task never waits for the other to end
HasThread(s) == TRUE

\* line[:-1]
DropLast(line) == SubSeq(line, 1, Len(line) - 1)

\* one step of deque((handler(line[:-1]) for line in stream), maxlen=0) in a
\* pool thread: the next character of the stream, and the handler's call
\* when it ends a line; at the end of the stream, the handler's call for a
\* last line without a newline, then the end of the task.  A handler that
\* raises ends the task: the exception stays in the future nobody reads.
worker_step(s) ==
    LET call(line) ==
            IF hraise[s] = Len(delivered[s]) + 1
            THEN /\ wstate' = [wstate EXCEPT ![s] = "raised"]
                 /\ UNCHANGED delivered
            ELSE /\ delivered' = [delivered EXCEPT ![s] = Append(@, DropLast(line))]
                 /\ UNCHANGED wstate
    IN  /\ wstate[s] = "reading"
        /\ HasThread(s)
        /\ IF pipe[s] # <<>>
           THEN /\ pipe' = [pipe EXCEPT ![s] = Tail(@)]
                /\ IF Head(pipe[s]) = NL
                   THEN /\ call(Append(wbuf[s], NL))
                        /\ wbuf' = [wbuf EXCEPT ![s] = <<>>]
                   ELSE /\ wbuf' = [wbuf EXCEPT ![s] = Append(@, Head(pipe[s]))]
                        /\ UNCHANGED <<wstate, delivered>>
           ELSE /\ childState = "exited"
                /\ UNCHANGED pipe
                /\ IF wbuf[s] # <<>>
                   THEN /\ call(wbuf[s])
                        /\ wbuf' = [wbuf EXCEPT ![s] = <<>>]
                   ELSE /\ wstate' = [wstate EXCEPT ![s] = "done"]
                        /\ UNCHANGED <<wbuf, delivered>>
        /\ UNCHANGED <<runnerVars, ctxVars, fsVars, runVars, lastCall,
                       threadVars, mnt, childProg, childPos, childState,
                       childExit, readOpen, hraise>>

\* variant: one task has ended
WorkersFinishedEither == \E s \in Streams : wstate[s] \in {"done", "raised"}

\* both tasks of the pool have ended
WorkersFinished == \A s \in Streams : wstate[s] \in {"done", "raised"}

\* the end of the with blocks: the pool's shutdown(wait=True) returns once
\* both tasks have ended, then Popen.__exit__ closes the parent's ends of the
\* pipes and waits for the child
run_join ==
    /\ runpc = "spawned"
    /\ WorkersFinished
    /\ runpc' = "joined"
    /\ readOpen' = [s \in Streams |-> FALSE]
    /\ UNCHANGED <<runnerVars, ctxVars, fsVars, cargs, mounts,
                   singularity_command, lastCall, threadVars, mnt, childProg,
                   childPos, childState, childExit, pipe, wbuf, wstate,
                   delivered, hraise>>

\* StyxSingularityError.__init__: what the error carries, by parameter
StyxSingularityError(return_code, command_args, singularity_args) ==
    [return_code |-> return_code, command_args |-> command_args,
     singularity_args |-> singularity_args]

\* variant: only a positive status counts as failure
FailsOnPositive(return_code) == return_code > 0

\* if return_code:
Fails(return_code) == return_code # 0

ChildExited == childState = "exited"

\* lines 268-275: process.poll() after Popen.__exit__ has waited for the
\* child, then the raise, or the return
run_finish ==
    LET return_code == childExit
    IN  /\ runpc = "joined"
        /\ ChildExited
        /\ runpc' = "idle"
        /\ lastCall' =
               IF Fails(return_code)
               THEN Call("run", NoArgs, FALSE, "StyxSingularityError", <<>>,
                         StyxSingularityError(return_code, singularity_command,
                                              cargs))
               ELSE Call("run", NoArgs, TRUE, "", <<>>, NoError)
        /\ UNCHANGED <<runnerVars, ctxVars, fsVars, procVars, cargs, mounts,
                       singularity_command, threadVars, mnt>>

(***************************************************************************)
(* start_execution called from several threads, each once.  Nothing in     *)
(* the method synchronises them, so a thread can be preempted between the  *)
(* load and the store of  self.execution_counter += 1  and between that    *)
(* statement and the read of the counter in the f-string of line 364.      *)
(***************************************************************************)
Threads == 1..NumThreads

\* lines 352-358
t_check(t) ==
    /\ tpc[t] = "check"
    /\ tpc' = [tpc EXCEPT ![t] =
                  IF tmd[t].container_image_tag.some THEN "load" ELSE "raised"]
    /\ UNCHANGED <<runnerVars, ctxVars, fsVars, procVars, runVars, lastCall,
                   mnt, tmd, tload, tret>>

\* line 360, the load of self.execution_counter
t_load(t) ==
    /\ tpc[t] = "load"
    /\ tload' = [tload EXCEPT ![t] = execution_counter]
    /\ tpc' = [tpc EXCEPT ![t] = "store"]
    /\ UNCHANGED <<runnerVars, ctxVars, fsVars, procVars, runVars, lastCall,
                   mnt, tmd, tret>>

\* line 360, the store
t_store(t) ==
    /\ tpc[t] = "store"
    /\ execution_counter' = tload[t] + 1
    /\ tpc' = [tpc EXCEPT ![t] = "make"]
    /\ UNCHANGED <<uid, contexts, ctxVars, fsVars, procVars, runVars, lastCall,
                   mnt, tmd, tload, tret>>

\* lines 361-370: the context, its output directory from the counter as it
\* is now
t_make(t) ==
    /\ tpc[t] = "make"
    /\ tret' = [tret EXCEPT ![t] =
                   OutputDir(uid, execution_counter, tmd[t].name)]
    /\ tpc' = [tpc EXCEPT ![t] = "returned"]
    /\ UNCHANGED <<runnerVars, ctxVars, fsVars, procVars, runVars, lastCall,
                   mnt, tmd, tload>>

(***************************************************************************)
(* _singularity_mount applied to arguments of its own.                     *)
(***************************************************************************)
PathChars == { "a", "/", ",", "\\", ":" }

RECURSIVE TextsOfLen(_)
TextsOfLen(n) ==
    IF n = 0 THEN { <<>> }
    ELSE { Append(t, c) : t \in TextsOfLen(n - 1), c \in PathChars }

PathTexts == UNION { TextsOfLen(n) : n \in 0..MaxPathLen }

NoMountResult == [ok |-> FALSE, err |-> "", val |-> <<>>]

mount_call ==
    /\ ~mnt.called
    /\ mnt' = [mnt EXCEPT !.called = TRUE,
                          !.result = singularity_mount(mnt.host_path,
                                                       mnt.container_path,
                                                       mnt.readonly)]
    /\ UNCHANGED <<runnerVars, ctxVars, fsVars, procVars, runVars, lastCall,
                   threadVars>>

(***************************************************************************)
(* Initial states.                                                         *)
(***************************************************************************)
NoContext ==
    /\ output_dir = NoOutputDir
    /\ container_tag = <<>>
    /\ input_mounts = <<>>
    /\ input_file_next_id = 0
    /\ returned = <<>>

NoFiles ==
    /\ fs_dirs = {}
    /\ scripts = << >>

NoThreads ==
    /\ tpc = [t \in Threads |-> "unused"]
    /\ tmd = [t \in Threads |-> NoMetadata]
    /\ tload = [t \in Threads |-> 0]
    /\ tret = [t \in Threads |-> NoOutputDir]

NoMountCall ==
    mnt = [host_path |-> <<>>, container_path |-> <<>>, readonly |-> FALSE,
           called |-> FALSE, result |-> NoMountResult]

\* the environ a runner is constructed with
Environs == { <<>>, << <<<<"k">>, <<"v">>>>, <<<<"l">>, <<>>>> >> }

\* the state after SingularityRunner.__init__
RunnerInit ==
    /\ uid \in Uids
    /\ execution_counter = 0
    /\ contexts = <<>>
    /\ environ = <<>>
    /\ NoContext
    /\ NoFiles
    /\ NoRun
    /\ NoProc
    /\ lastCall = NoCall
    /\ NoThreads
    /\ NoMountCall

FirstMetadata(name) ==
    [name |-> name, package |-> <<"p">>,
     container_image_tag |-> SomeTag(<<"a">>)]

\* the state after the runner's first start_execution
FirstContext(name) ==
    /\ uid = <<"a", "7">>
    /\ execution_counter = 1
    /\ output_dir = OutputDir(uid, execution_counter, name)
    /\ container_tag = ResolveTag(FirstMetadata(name).container_image_tag.val)
    /\ contexts = << [output_dir |-> output_dir,
                      container_tag |-> container_tag,
                      metadata |-> FirstMetadata(name)] >>
    /\ NoFiles
    /\ NoRun
    /\ NoProc
    /\ NoThreads
    /\ NoMountCall

Init ==
    /\ FirstContext(<<"n">>)
    /\ environ = << <<<<"k">>, <<"v">>>> >>
    /\ input_mounts = <<>>
    /\ input_file_next_id = 0
    /\ returned = <<>>
    /\ lastCall = Call("start_execution",
                       [NoArgs EXCEPT !.metadata = FirstMetadata(<<"n">>)],
                       TRUE, "", output_dir, NoError)

\* the names of the first execution: one gives an output directory that
\* _singularity_mount refuses
ProcNames == { <<"n">>, <<"n", ":">> }

\* the input declared before run(): none, a file, a file that
\* _singularity_mount refuses
ProcInputs == { <<>>, <<"/", "d", "/", "a">>, <<"/", "d", "/", "c", ":">> }

\* the states in which run() is called: after start_execution and at most one
\* input_file
ProcInit ==
    /\ \E name \in ProcNames :
          /\ FirstContext(name)
          /\ \E h \in ProcInputs :
                IF h = <<>>
                THEN /\ input_mounts = <<>>
                     /\ input_file_next_id = 0
                     /\ returned = <<>>
                     /\ lastCall = Call("start_execution",
                                        [NoArgs EXCEPT !.metadata = FirstMetadata(name)],
                                        TRUE, "", output_dir, NoError)
                ELSE LET r == InputFileResult(h, FALSE, FALSE, 0)
                     IN  /\ r.ok
                         /\ input_mounts = <<r.mount>>
                         /\ input_file_next_id = NextId(0)
                         /\ returned = <<r.resolved_file>>
                         /\ lastCall = Call("input_file",
                                            [NoArgs EXCEPT !.path = h],
                                            TRUE, "", r.resolved_file, NoError)
    /\ environ \in Environs

ConcMetadatas ==
    { [name |-> n, package |-> <<"p">>, container_image_tag |-> t] :
        n \in Names, t \in { NoneTag, SomeTag(<<"a">>) } }

ConcInit ==
    /\ uid \in Uids
    /\ execution_counter = 0
    /\ contexts = <<>>
    /\ environ = <<>>
    /\ NoContext
    /\ NoFiles
    /\ NoRun
    /\ NoProc
    /\ lastCall = NoCall
    /\ tpc = [t \in Threads |-> "check"]
    /\ tmd \in [Threads -> ConcMetadatas]
    /\ tload = [t \in Threads |-> 0]
    /\ tret = [t \in Threads |-> NoOutputDir]
    /\ NoMountCall

MountInit ==
    /\ uid = <<"a", "7">>
    /\ execution_counter = 0
    /\ contexts = <<>>
    /\ environ = <<>>
    /\ NoContext
    /\ NoFiles
    /\ NoRun
    /\ NoProc
    /\ lastCall = NoCall
    /\ NoThreads
    /\ mnt \in [host_path : PathTexts, container_path : PathTexts,
                readonly : BOOLEAN, called : {FALSE},
                result : {NoMountResult}]

(***************************************************************************)
(* Specifications.                                                         *)
(***************************************************************************)
\* one caller working with one context: declarations and runs
Next ==
    \/ \E h \in HostPaths, rp \in BOOLEAN, m \in BOOLEAN : input_file(h, rp, m)
    \/ \E f \in LocalFiles, o \in BOOLEAN : output_file(f, o)
    \/ \E a \in Cargs, p \in BasicPrograms, h \in TotalHandlers : run_start(a, p, h)
    \/ child_write
    \/ \E c \in ExitCodes : child_exit(c)
    \/ \E s \in Streams : worker_step(s)
    \/ run_join
    \/ run_finish

Spec == Init /\ [][Next]_vars

\* run() and the process it supervises
ProcNext ==
    \/ \E a \in ProcCargs, p \in ChildPrograms, h \in Handlers : run_start(a, p, h)
    \/ child_write
    \/ \E c \in ExitCodes : child_exit(c)
    \/ \E s \in Streams : worker_step(s)
    \/ run_join
    \/ run_finish

ProcSpec == ProcInit /\ [][ProcNext]_vars

\* the operating system schedules the child and the pool's threads, and the
\* calling thread goes on once it no longer waits
ProcFairness ==
    /\ WF_vars(child_write)
    /\ WF_vars(\E c \in ExitCodes : child_exit(c))
    /\ \A s \in Streams : WF_vars(worker_step(s))
    /\ WF_vars(run_join)
    /\ WF_vars(run_finish)

FairProcSpec == ProcSpec /\ ProcFairness

\* one caller starting executions on one runner
RunnerNext == \E metadata \in Metadatas : start_execution(metadata)

RunnerSpec == RunnerInit /\ [][RunnerNext]_vars

\* several threads starting executions on one runner
ConcNext == \E t \in Threads : t_check(t) \/ t_load(t) \/ t_store(t) \/ t_make(t)

ConcSpec == ConcInit /\ [][ConcNext]_vars

\* _singularity_mount on its own
MountNext == mount_call

MountSpec == MountInit /\ [][MountNext]_vars

(***************************************************************************)
(* Properties.                                                             *)
(***************************************************************************)
\* a run() that has returned, or raised StyxSingularityError
RunEnded ==
    /\ runpc = "idle"
    /\ lastCall.op = "run"
    /\ lastCall.err \in {"", "StyxSingularityError"}

\* C1: over any sequence of successful input_file calls on one context, the
\* k-th call (k from 0) returns a path under /styx_input whose second
\* component is k, so the returned paths are pairwise distinct, and
\* input_file_next_id equals the number of recorded mounts.
C1_InputPathsDistinct ==
    /\ input_file_next_id = Len(input_mounts)
    /\ Len(returned) = Len(input_mounts)
    /\ \A k \in 1..Len(returned) :
          LET parts == SplitSlash(returned[k], 1, <<>>)
          IN  /\ Len(parts) >= 4
              /\ parts[1] = <<>>
              /\ parts[2] = <<"s", "t", "y", "x", "_", "i", "n", "p", "u", "t">>
              /\ parts[3] = Str(k - 1)
    /\ \A j, k \in 1..Len(returned) : j # k => returned[j] # returned[k]

\* the same host file declared twice, once by itself and once by its parent
C1_Witness ==
    /\ Len(returned) = 2
    /\ input_mounts[1].host_file = <<"/", "d", "/", "a">>
    /\ input_mounts[2].host_file = <<"/", "d">>
    /\ PathName(returned[1]) = PathName(returned[2])

\* C2: a run() that starts the engine on a context with N inputs passes N+1
\* bind mounts: those of the inputs in declaration order, then the output
\* directory's, which is writable.
C2_MountsInOrder ==
    (runpc # "idle" \/ RunEnded) =>
        LET N == Len(input_mounts)
            ro(m) == IF m.mutable THEN <<>> ELSE <<":", "r", "o">>
        IN  /\ Len(mounts) = 2 * (N + 1)
            /\ \A i \in 1..(N + 1) : mounts[2 * i - 1] = Bind
            /\ \A i \in 1..N :
                  mounts[2 * i] =
                      input_mounts[i].host_file \o <<":">>
                          \o input_mounts[i].local_file \o ro(input_mounts[i])
            /\ mounts[2 * N + 2] =
                   Cwd \o <<"/">> \o output_dir \o <<":">> \o StyxOutput
            /\ SubSeq(singularity_command, 5, 4 + Len(mounts)) = mounts
            /\ Cardinality({ i \in 1..Len(singularity_command) :
                               singularity_command[i] = Bind }) = N + 1

\* the engine runs with two inputs, the first read-only and the second not
C2_Witness ==
    /\ runpc = "spawned"
    /\ Len(input_mounts) = 2
    /\ ~input_mounts[1].mutable
    /\ input_mounts[2].mutable
    /\ input_mounts[1].host_file # input_mounts[2].host_file

\* C3: run() raises StyxSingularityError exactly when the child ended with a
\* non-zero exit status, a negative one included, and the error carries that
\* status; when the child exits 0, run() returns.
C3_RaisesIffNonZero ==
    RunEnded =>
        /\ childState = "exited"
        /\ (lastCall.err = "StyxSingularityError") <=> (childExit # 0)
        /\ childExit # 0 => lastCall.error.return_code = childExit
        /\ childExit = 0 => lastCall.ok

\* the child was killed by a signal and run() raised with that status
C3_Witness ==
    /\ RunEnded
    /\ childExit = -9
    /\ lastCall.err = "StyxSingularityError"
    /\ lastCall.error.return_code = -9

\* the lines of a text: the text between newlines, and after the last one
\* when the text does not end with a newline
RECURSIVE LinesOf(_, _)
LinesOf(text, cur) ==
    IF text = <<>> THEN (IF cur = <<>> THEN <<>> ELSE <<cur>>)
    ELSE IF text[1] = NL THEN <<cur>> \o LinesOf(Tail(text), <<>>)
    ELSE LinesOf(Tail(text), Append(cur, text[1]))

\* C4: the handler of a stream is called once per line the child wrote, in
\* order, with the whole line less its newline, whether or not the last line
\* ends with a newline.
C4_EveryLineWhole ==
    (RunEnded /\ hraise = NeverRaise) =>
        \A s \in Streams : delivered[s] = LinesOf(Written(s), <<>>)

\* every line of the child's whole output has reached its handler
C5_AllDelivered ==
    /\ RunEnded
    /\ childPos > Len(childProg)
    /\ \A s \in Streams :
          LET lines == LinesOf(Written(s), <<>>)
          IN  /\ Len(delivered[s]) = Len(lines)
              /\ \A i \in 1..Len(lines) :
                    (i < Len(lines) \/ Written(s)[Len(Written(s))] = NL)
                        => delivered[s][i] = lines[i]

\* C5: with handlers that return, a child that fills one pipe while the
\* other is not being written never blocks run() for ever: run() ends, and
\* by then each handler was called once per line of its stream, with the
\* text of every line that ended with a newline.
C5_NoDeadlock ==
    (runpc = "spawned" /\ hraise = NeverRaise) ~> C5_AllDelivered

\* the child waits on a full pipe, having written more than a pipe holds to
\* that stream, while the worker of the other stream waits for text
C5_Witness ==
    /\ runpc = "spawned"
    /\ hraise = NeverRaise
    /\ childState = "running"
    /\ childPos <= Len(childProg)
    /\ \E s, o \in Streams :
          /\ s # o
          /\ childProg[childPos].s = s
          /\ Len(pipe[s]) = PipeCap
          /\ Len(Written(s)) > PipeCap
          /\ pipe[o] = <<>>
          /\ wstate[o] = "reading"
          /\ \E i \in childPos..Len(childProg) : childProg[i].s = o

C6_DirsState ==
    /\ execution_counter = Len(contexts)
    /\ \A i \in 1..Len(contexts) :
          contexts[i].output_dir =
              data_dir \o <<"/">> \o uid \o <<"_">> \o Str(i - 1) \o <<"_">>
                  \o contexts[i].metadata.name
    /\ \A i, j \in 1..Len(contexts) :
          i # j => contexts[i].output_dir # contexts[j].output_dir

C6_DirsStep ==
    /\ uid' = uid
    /\ (lastCall'.op = "start_execution" /\ ~lastCall'.ok) =>
          /\ ~lastCall'.args.metadata.container_image_tag.some
          /\ execution_counter' = execution_counter
          /\ contexts' = contexts

\* C6: the i-th successful start_execution (i from 0) of a runner gets the
\* output directory <data_dir>/<uid>_<i>_<name>, so the directories are
\* pairwise distinct whatever the names; execution_counter is the number of
\* successful calls; uid never changes; a call that raises for want of a
\* container image tag leaves the counter as it was.
C6_OutputDirsDistinct == []C6_DirsState /\ [][C6_DirsStep]_vars

\* two executions of the same name, then a call without an image tag
C6_Witness ==
    /\ Len(contexts) = 2
    /\ contexts[1].metadata.name = contexts[2].metadata.name
    /\ lastCall.op = "start_execution"
    /\ ~lastCall.ok

\* C7: when several threads call start_execution on one runner, no two of
\* the returned contexts have the same output directory and the counter ends
\* equal to the number of calls that returned.
C7_ConcurrentDistinct ==
    (\A t \in Threads : tpc[t] \in {"returned", "raised"}) =>
        /\ \A t, u \in Threads :
              (t # u /\ tpc[t] = "returned" /\ tpc[u] = "returned")
                  => tret[t] # tret[u]
        /\ execution_counter =
               Cardinality({ t \in Threads : tpc[t] = "returned" })

Count(text, c) == Cardinality({ i \in 1..Len(text) : text[i] = c })

\* C8: _singularity_mount raises when host or container holds a comma, a
\* backslash or a colon, and otherwise returns host + ":" + container, with
\* ":ro" after it iff readonly: a text without comma or backslash, with one
\* colon when writable and two when read-only.
C8_MountFormat ==
    mnt.called =>
        LET h == mnt.host_path
            c == mnt.container_path
            bad == \E i \in 1..Len(h \o c) : (h \o c)[i] \in { ",", "\\", ":" }
            r == mnt.result
        IN  /\ bad <=> ~r.ok
            /\ ~r.ok => r.err = "ValueError"
            /\ r.ok =>
                  /\ r.val = h \o <<":">> \o c
                                \o (IF mnt.readonly THEN <<":", "r", "o">> ELSE <<>>)
                  /\ Count(r.val, ",") = 0
                  /\ Count(r.val, "\\") = 0
                  /\ Count(r.val, ":") = (IF mnt.readonly THEN 2 ELSE 1)

\* a read-only mount of two paths that are accepted
C8_Witness ==
    /\ mnt.called
    /\ mnt.result.ok
    /\ mnt.readonly
    /\ Len(mnt.host_path) = 2
    /\ Len(mnt.container_path) = 2

\* whether input_file is to raise, from the host file system
C9_NotFound(args) ==
    IF args.resolve_parent
    THEN PathParent(args.path) \notin HostDirs \cup fs_dirs
    ELSE args.path \notin HostDirs \cup HostFiles \cup fs_dirs \cup DOMAIN scripts

C9_State ==
    lastCall.op = "input_file" =>
        /\ lastCall.ok <=> ~C9_NotFound(lastCall.args)
        /\ ~lastCall.ok => lastCall.err = "FileNotFoundError"

C9_Step ==
    /\ (lastCall'.op = "input_file" /\ ~lastCall'.ok) =>
          UNCHANGED <<input_mounts, input_file_next_id, returned>>
    /\ (lastCall.op = "input_file" /\ ~lastCall.ok
            /\ lastCall'.op = "input_file" /\ lastCall'.ok) =>
          SplitSlash(lastCall'.ret, 1, <<>>)[3] = Str(input_file_next_id)

\* C9: input_file raises FileNotFoundError when resolve_parent is false and
\* the host path does not exist, or when resolve_parent is true and the
\* parent directory does not exist, and in no other case; a call that raises
\* records no mount and consumes no id, so the next call that succeeds gets
\* the id the failed one would have used.
C9_NotFoundLeavesContext == []C9_State /\ [][C9_Step]_vars

\* after one input was declared, a call for a missing file raised
C9_Witness ==
    /\ lastCall.op = "input_file"
    /\ ~lastCall.ok
    /\ ~lastCall.args.resolve_parent
    /\ Len(input_mounts) = 1
    /\ input_file_next_id = 1

\* C10: the StyxSingularityError run() raises carries the exit code as
\* return_code, the cargs of run() as command_args and the engine command
\* line as singularity_args.
C10_ErrorFields ==
    (RunEnded /\ lastCall.err = "StyxSingularityError") =>
        /\ lastCall.error.return_code = childExit
        /\ lastCall.error.command_args = cargs
        /\ lastCall.error.singularity_args = singularity_command

\* the words a POSIX shell reads from a command line: blanks and newlines
\* outside quotes separate words, a quote opens a text that runs to the next
\* quote of its kind
RECURSIVE ShellWords(_, _, _, _, _)
ShellWords(text, i, cur, inword, q) ==
    IF i > Len(text) THEN (IF inword THEN <<cur>> ELSE <<>>)
    ELSE LET c == text[i]
         IN  IF q # ""
             THEN IF c = q THEN ShellWords(text, i + 1, cur, TRUE, "")
                  ELSE ShellWords(text, i + 1, Append(cur, c), TRUE, q)
             ELSE IF c \in {" ", NL}
                  THEN (IF inword THEN <<cur>> ELSE <<>>)
                       \o ShellWords(text, i + 1, <<>>, FALSE, "")
             ELSE IF c \in {"'", "\""}
                  THEN ShellWords(text, i + 1, cur, TRUE, c)
             ELSE ShellWords(text, i + 1, Append(cur, c), TRUE, "")

\* run.sh of the current context's output directory
ScriptPath == PathJoin(Absolute(output_dir), RunSh)

ScriptWritten == lastCall.op = "run" /\ ScriptPath \in DOMAIN scripts

Shebang == <<"#", "!", "/", "b", "i", "n", "/", "b", "a", "s", "h">>
CdLine == <<"c", "d", " ", "/", "s", "t", "y", "x", "_", "o", "u", "t", "p", "u", "t">>

\* C11 as stated: the run script is exactly three newline-terminated lines,
\* the shebang, cd /styx_output and a shell-escaped rendering of the command
\* on one line.
C11_ThreeLines ==
    ScriptWritten =>
        LET text == scripts[ScriptPath]
            lines == LinesOf(text, <<>>)
        IN  /\ text[Len(text)] = NL
            /\ Len(lines) = 3
            /\ lines[1] = Shebang
            /\ lines[2] = CdLine
            /\ ShellWords(lines[3], 1, <<>>, FALSE, "") = cargs

\* C11, amended: the run script is the shebang line, the line cd
\* /styx_output, then a shell-escaped rendering of the command (a text the
\* shell reads back as the command's arguments) and a newline; it is three
\* lines when no argument holds a newline, and one more for each newline an
\* argument holds.  The text is fixed by the command: whatever the inputs,
\* the environment and the output directory, ls gives ls, echo 'a b' gives
\* echo 'a b', and echo it's gives echo 'it'"'"'s'.
C11_ScriptFromCommand ==
    ScriptWritten =>
        LET text == scripts[ScriptPath]
            head == Shebang \o <<NL>> \o CdLine \o <<NL>>
            rendering == SubSeq(text, Len(head) + 1, Len(text) - 1)
            newlines == Count(Join(cargs, <<>>), NL)
        IN  /\ StartsWith(text, head)
            /\ text[Len(text)] = NL
            /\ ShellWords(rendering, 1, <<>>, FALSE, "") = cargs
            /\ Count(text, NL) = 3 + newlines
            /\ cargs = <<<<"l", "s">>>> => rendering = <<"l", "s">>
            /\ cargs = <<<<"e", "c", "h", "o">>, <<"a", " ", "b">>>> =>
                   rendering = <<"e", "c", "h", "o", " ", "'", "a", " ", "b", "'">>
            /\ cargs = <<<<"e", "c", "h", "o">>, <<"i", "t", "'", "s">>>> =>
                   rendering = <<"e", "c", "h", "o", " ", "'", "i", "t", "'",
                                 "\"", "'", "\"", "'", "s", "'">>

\* a script of four lines was written for a context whose output directory
\* the mount refuses, with an environ that is empty
C11_Witness ==
    /\ ScriptWritten
    /\ cargs = <<<<"e", "c", "h", "o">>, <<"a", NL, "b">>>>
    /\ Count(scripts[ScriptPath], NL) = 4
    /\ lastCall.err = "ValueError"
    /\ environ = <<>>

\* run() has built its command and started the child
RunSpawned == runpc \in {"spawned", "joined"} \/ RunEnded

EnvFlag == <<"-", "-", "e", "n", "v">>

\* C12: the engine command is the executable, exec, the extra engine
\* arguments, --bind and a mount text for each declared input and for the
\* output directory, then --env and one comma-joined key=value list iff the
\* environ is not empty, then the container reference, /bin/bash and
\* /styx_output/run.sh.
C12_CommandOrder ==
    RunSpawned =>
        LET c == singularity_command
            base == 2 + Len(singularity_extra_args)
            k == Len(input_mounts) + 1
            e == IF environ = <<>> THEN 0 ELSE 2
            rest == base + 2 * k + e
        IN  /\ Len(c) = rest + 3
            /\ c[1] = singularity_executable
            /\ c[2] = <<"e", "x", "e", "c">>
            /\ SubSeq(c, 3, base) = singularity_extra_args
            /\ \A i \in 1..k :
                  /\ c[base + 2 * i - 1] = Bind
                  /\ c[base + 2 * i] = mounts[2 * i]
                  /\ StartsWith(c[base + 2 * i],
                                IF i < k THEN Absolute(input_mounts[i].host_file)
                                ELSE Absolute(output_dir))
            /\ environ = <<>> => \A i \in 1..Len(c) : c[i] # EnvFlag
            /\ environ # <<>> =>
                  /\ c[rest - 1] = EnvFlag
                  /\ Count(c[rest], ",") = Len(environ) - 1
                  /\ \A i \in 1..Len(c) : c[i] = EnvFlag => i = rest - 1
            /\ environ = << <<<<"k">>, <<"v">>>>, <<<<"l">>, <<>>>> >> =>
                  c[rest] = <<"k", "=", "v", ",", "l", "=">>
            /\ c[rest + 1] = container_tag
            /\ c[rest + 2] = <<"/", "b", "i", "n", "/", "b", "a", "s", "h">>
            /\ c[rest + 3] = <<"/", "s", "t", "y", "x", "_", "o", "u", "t",
                               "p", "u", "t", "/", "r", "u", "n", ".", "s", "h">>

\* a command with one input mount and an environ of two entries
C12_Witness ==
    /\ runpc = "spawned"
    /\ Len(input_mounts) = 1
    /\ Len(environ) = 2
    /\ Len(singularity_command) = 13

\* a command for an empty environ
C12_WitnessNoEnv ==
    /\ runpc = "spawned"
    /\ environ = <<>>
    /\ Len(singularity_command) = 9

\* the task of stream s has read its stream to the end: its loop ended with
\* the stream, or at least nothing the child writes on s is left unread
ReachedEndOfStream(s) ==
    \/ wstate[s] = "done"
    \/ /\ pipe[s] = <<>>
       /\ \A i \in childPos..Len(childProg) : childProg[i].s # s

\* the calling thread has left the with blocks: process.poll() is next, or
\* done
StatusRead == runpc = "joined" \/ RunEnded

\* C13: the child's exit status is read, and success or failure decided,
\* only after both stream tasks have reached the end of their streams, and no
\* line reaches a handler once the calling thread is past the pool.
C13_StatusAfterEndOfStream ==
    StatusRead => \A s \in Streams : ReachedEndOfStream(s)

\* the part of C13 that the code keeps: both tasks have ended, one way or
\* the other, before the status is read, and no handler is called after that
C13_TasksEnded == StatusRead => WorkersFinished

C13_NoLateLine == [][(StatusRead /\ StatusRead') => delivered' = delivered]_vars

\* a handler raised during the run that has ended
HandlerRaised == \E s \in Streams : wstate[s] = "raised"

\* C14: when a stdout or stderr handler raises, run() does not return
\* normally: it raises, even when the child exits with status 0.
C14_HandlerErrorSurfaces ==
    (runpc = "idle" /\ lastCall.op = "run" /\ HandlerRaised) => ~lastCall.ok

\* C15: run() never blocks for ever: whatever the handlers do, a run that
\* has started its child returns or raises in the end, for every child that
\* ends once its output is read.
C15_RunTerminates == (runpc = "spawned") ~> RunEnded

\* the state in which C15 fails: the stdout task has ended with its handler's
\* exception, the child waits for room in the stdout pipe that nobody reads,
\* the stderr task waits for the child, and the calling thread waits for the
\* stderr task
C15_Stuck ==
    /\ runpc = "spawned"
    /\ wstate["stdout"] = "raised"
    /\ wstate["stderr"] = "reading"
    /\ childState = "running"
    /\ Len(pipe["stdout"]) = PipeCap
    /\ pipe["stderr"] = <<>>
    /\ childPos <= Len(childProg)
    /\ childProg[childPos].s = "stdout"

\* the text holds a comma, a backslash or a colon
Unmountable(text) == \E i \in 1..Len(text) : text[i] \in { ",", "\\", ":" }

\* the host path of a declared input, or the output directory, is such a text
BadMount ==
    \/ \E k \in 1..Len(input_mounts) :
          Unmountable(Absolute(input_mounts[k].host_file))
    \/ Unmountable(Absolute(output_dir))

C16_WitnessOutputDir ==
    /\ input_mounts = <<>>
    /\ Unmountable(Absolute(output_dir))
    /\ lastCall.op = "run"
    /\ lastCall.err = "ValueError"
    /\ ScriptPath \in DOMAIN scripts

\* the output directory exists and its run.sh holds the command of the
\* current run
ScriptInPlace ==
    /\ Absolute(output_dir) \in fs_dirs \cup HostDirs
    /\ ScriptPath \in DOMAIN scripts
    /\ LET text == scripts[ScriptPath]
           head == Shebang \o <<NL>> \o CdLine \o <<NL>>
       IN  /\ StartsWith(text, head)
           /\ ShellWords(SubSeq(text, Len(head) + 1, Len(text)),
                         1, <<>>, FALSE, "") = cargs

C17_State == RunSpawned => ScriptInPlace

\* between the start of the child and the end of run(), no step touches the
\* directories or the scripts
C17_Step == (runpc # "idle") => UNCHANGED <<fs_dirs, scripts>>

\* C17: when run() starts the child, the output directory exists and its
\* run.sh holds the current command; that run never removes or rewrites the
\* script, so it is in place, with the command that ran, after run() has
\* raised for a non-zero exit.
C17_ScriptStays == []C17_State /\ [][C17_Step]_vars

\* run() has raised for exit status 17 and the script of its command is there
C17_Witness ==
    /\ RunEnded
    /\ lastCall.err = "StyxSingularityError"
    /\ lastCall.error.return_code = 17
    /\ cargs = <<<<"e", "c", "h", "o">>, <<"a", " ", "b">>>>
    /\ ScriptInPlace

\* C18: start_execution raises when the metadata has no container image
\* tag; otherwise the context's container_tag is the override of the tag
\* when image_overrides has the tag as a key, the tag itself when it has not,
\* looked up once, with docker:// put before it iff it does not start with
\* docker:// already.
C18_TagResolved ==
    /\ lastCall.op = "start_execution" =>
          /\ lastCall.ok <=> lastCall.args.metadata.container_image_tag.some
          /\ ~lastCall.ok => lastCall.err = "ValueError"
    /\ \A i \in 1..Len(contexts) :
          LET tag == contexts[i].metadata.container_image_tag.val
              resolved == IF tag \in DOMAIN image_overrides
                          THEN image_overrides[tag] ELSE tag
              ref == contexts[i].container_tag
          IN  /\ contexts[i].metadata.container_image_tag.some
              /\ StartsWith(ref, DockerPrefix)
              /\ StartsWith(resolved, DockerPrefix) => ref = resolved
              /\ ~StartsWith(resolved, DockerPrefix) => ref = DockerPrefix \o resolved
              /\ tag = <<"b">> => ref = DockerPrefix \o <<"a">>
              /\ tag = <<"d">> => ref = DockerPrefix \o <<"d">>
    /\ contexts # <<>> => container_tag = contexts[Len(contexts)].container_tag

\* a tag whose override is itself a key of image_overrides, a tag whose
\* override starts with docker://, then a metadata without a tag
C18_Witness ==
    /\ Len(contexts) = 2
    /\ contexts[1].metadata.container_image_tag.val = <<"b">>
    /\ contexts[1].container_tag = DockerPrefix \o <<"a">>
    /\ contexts[2].metadata.container_image_tag.val = <<"f">>
    /\ contexts[2].container_tag = DockerPrefix \o <<"e">>
    /\ lastCall.op = "start_execution"
    /\ lastCall.err = "ValueError"

\* the place of the last "/" of a text that has one
LastSlash(text) ==
    CHOOSE i \in 1..Len(text) :
        /\ text[i] = "/"
        /\ \A j \in (i + 1)..Len(text) : text[j] # "/"

\* what follows the last "/", and what precedes it
Basename(text) == SubSeq(text, LastSlash(text) + 1, Len(text))
Dirname(text) == SubSeq(text, 1, LastSlash(text) - 1)

\* a step that records a mount: the mount and the path returned, from the
\* arguments of the call
C19_Step ==
    (Len(input_mounts') > Len(input_mounts)) =>
        LET a == lastCall'.args
            id == Str(Len(input_mounts))
            m == input_mounts'[Len(input_mounts')]
            ret == lastCall'.ret
            file == IF a.resolve_parent THEN Dirname(a.path) ELSE a.path
            target == StyxInput \o id \o <<"/">> \o Basename(file)
        IN  /\ lastCall'.op = "input_file"
            /\ lastCall'.ok
            /\ input_mounts' = Append(input_mounts, m)
            /\ returned' = Append(returned, ret)
            /\ m.host_file = file
            /\ m.local_file = target
            /\ m.mutable = a.mutable
            /\ StartsWith(ret, target)
            /\ ret = IF a.resolve_parent
                     THEN target \o <<"/">> \o Basename(a.path)
                     ELSE target

\* in the engine command the mount of the k-th input ends with :ro iff the
\* input was declared with mutable false
C19_State ==
    RunSpawned =>
        \A k \in 1..Len(input_mounts) :
            LET t == mounts[2 * k]
                m == input_mounts[k]
            IN  /\ StartsWith(t, m.host_file \o <<":">> \o m.local_file)
                /\ t = m.host_file \o <<":">> \o m.local_file \o <<":", "r", "o">>
                       <=> ~m.mutable
                /\ t = m.host_file \o <<":">> \o m.local_file <=> m.mutable

\* a successful input_file that records no mount, or records one without
\* returning, does not exist
C19_Calls ==
    (lastCall.op = "input_file" /\ lastCall.ok) =>
        /\ input_mounts # <<>>
        /\ returned[Len(returned)] = lastCall.ret

\* C19: each successful input_file records exactly one mount and returns a
\* path inside it: without resolve_parent the file at
\* /styx_input/<id>/<basename>, which is the path returned; with
\* resolve_parent the parent directory at /styx_input/<id>/<basename of the
\* parent>, and the path returned is that, "/" and the file's basename.  In
\* the engine command the mount ends with :ro iff mutable is false.
C19_MountPerInput == [](C19_State /\ C19_Calls) /\ [][C19_Step]_vars

\* a run with a mutable parent-directory mount and a read-only file mount
C19_Witness ==
    /\ runpc = "spawned"
    /\ Len(input_mounts) = 2
    /\ input_mounts[1] = Mount(<<"/", "d">>,
                               <<"/", "s", "t", "y", "x", "_", "i", "n", "p",
                                 "u", "t", "/", "0", "/", "d">>, TRUE)
    /\ returned[1] = <<"/", "s", "t", "y", "x", "_", "i", "n", "p", "u", "t",
                       "/", "0", "/", "d", "/", "a">>
    /\ input_mounts[2] = Mount(<<"/", "e", "/", "a">>,
                               <<"/", "s", "t", "y", "x", "_", "i", "n", "p",
                                 "u", "t", "/", "1", "/", "a">>, FALSE)
    /\ returned[2] = input_mounts[2].local_file
    /\ mounts[2] = <<"/", "d", ":", "/", "s", "t", "y", "x", "_", "i", "n",
                     "p", "u", "t", "/", "0", "/", "d">>

\* a step of run(), or an output_file call, leaves the context as it was
C20_Step ==
    (lastCall'.op \in {"run", "output_file"}) =>
        UNCHANGED <<input_mounts, input_file_next_id, returned, output_dir,
                    container_tag, environ>>

\* run() called again with the same command, after a run that returned or
\* raised, builds the command the first one built
C20_Again ==
    (RunEnded /\ runpc' = "spawned" /\ cargs' = cargs) =>
        /\ singularity_command' = singularity_command
        /\ mounts' = mounts

\* the command has one mount for each declared input and one for the output
\* directory, which is not among the declared ones
C20_State ==
    /\ RunSpawned => Len(mounts) = 2 * (Len(input_mounts) + 1)
    /\ \A k \in 1..Len(input_mounts) : input_mounts[k].local_file # StyxOutput
    /\ lastCall.op = "output_file" =>
          lastCall.ret = output_dir \o <<"/">> \o lastCall.args.path

\* C20: run() leaves input_mounts and input_file_next_id as they were,
\* whether it returns or raises, and never adds the output mount to the
\* declared list, so that run() again with the same command builds the same
\* engine command with N+1 mounts; output_file changes nothing of the context
\* either.
C20_ContextUnchanged == []C20_State /\ [][C20_Step /\ C20_Again]_vars

\* run() has raised for a context with two declared inputs, which it still
\* has
C20_Witness ==
    /\ RunEnded
    /\ lastCall.err = "StyxSingularityError"
    /\ Len(input_mounts) = 2
    /\ input_file_next_id = 2
    /\ Len(mounts) = 6

====
